---- MODULE Spec2Model ----
(***************************************************************************)
(* Model of docs/src/_extension/json_builder.py: the Sphinx builder        *)
(* JSONDataBuilder (write_doc / finish), the APIDataVisitor and the        *)
(* CodeBlockVisitor.                                                       *)
(*                                                                         *)
(* Text is a sequence of one-character strings.  A document tree is the    *)
(* pre-order sequence of its nodes, each with its depth; a node's subtree  *)
(* is the node and the size - 1 nodes that follow it.                      *)
(***************************************************************************)
EXTENDS Naturals, Sequences, FiniteSets, TLC

----------------------------------------------------------------------------
(* Text helpers: what the str / re calls of the source compute.            *)

\* Characters that Python's \w does not match; every other character of the
\* model's alphabets is a letter.
NonWordChars == {" ", "\n", ".", "(", ")", "[", "]", "=", "PILCROW", "EMDASH"}

IsWord(c) == c \notin NonWordChars

\* Characters that \s and str.strip() treat as whitespace.
Whitespace == {" ", "\n"}

\* whether pat occurs in s starting at (1-based) index i
OccursAt(pat, s, i) ==
    /\ i >= 1
    /\ i + Len(pat) - 1 <= Len(s)
    /\ \A k \in 1..Len(pat) : s[i + k - 1] = pat[k]

\* Python's `pat in s`
Contains(pat, s) == \E i \in 1..(Len(s) + 1) : OccursAt(pat, s, i)

\* Python's s.find(pat) + 1 (0 when absent)
Find(pat, s) ==
    IF Contains(pat, s)
    THEN CHOOSE i \in 1..(Len(s) + 1) :
            /\ OccursAt(pat, s, i)
            /\ \A j \in 1..(i - 1) : ~OccursAt(pat, s, j)
    ELSE 0

\* Python's s.strip()
RECURSIVE LStrip(_)
LStrip(s) == IF s # <<>> /\ Head(s) \in Whitespace THEN LStrip(Tail(s)) ELSE s

RECURSIVE RStrip(_)
RStrip(s) ==
    IF s # <<>> /\ s[Len(s)] \in Whitespace THEN RStrip(SubSeq(s, 1, Len(s) - 1)) ELSE s

Strip(s) == RStrip(LStrip(s))

\* re.sub(r"\s+", " ", s)
RECURSIVE CollapseWhitespace(_)
CollapseWhitespace(s) ==
    IF s = <<>> THEN <<>>
    ELSE IF Head(s) \in Whitespace
         THEN <<" ">> \o CollapseWhitespace(LStrip(s))
         ELSE <<Head(s)>> \o CollapseWhitespace(Tail(s))

\* s.replace(pat, "") for a non-empty pat
RECURSIVE Remove(_, _)
Remove(pat, s) ==
    IF s = <<>> THEN <<>>
    ELSE IF OccursAt(pat, s, 1)
         THEN Remove(pat, SubSeq(s, Len(pat) + 1, Len(s)))
         ELSE <<Head(s)>> \o Remove(pat, Tail(s))

\* s.split(".")[-1]
RECURSIVE LastSegment(_)
LastSegment(s) ==
    IF Contains(<<".">>, s)
    THEN LastSegment(SubSeq(s, Find(<<".">>, s) + 1, Len(s)))
    ELSE s

\* The regex assertion \b at offset p of s (between s[p] and s[p+1]).
WordBoundary(s, p) ==
    LET before == p >= 1 /\ p <= Len(s) /\ IsWord(s[p])
        after  == p + 1 >= 1 /\ p + 1 <= Len(s) /\ IsWord(s[p + 1])
    IN  before # after

\* Variants: a search without the \b assertions, and re.match in place of
\* re.search.
RegexSearchNoBoundary(short_name, code) == Contains(short_name, code)

RegexMatchAtStart(short_name, code) ==
    /\ WordBoundary(code, 0)
    /\ OccursAt(short_name, code, 1)
    /\ WordBoundary(code, Len(short_name))

\* re.search(rf"\b{short_name}\b", code) for a short name made of letters.

RegexSearch(short_name, code) ==
    \E p \in 0..Len(code) :
        /\ WordBoundary(code, p)
        /\ OccursAt(short_name, code, p + 1)
        /\ WordBoundary(code, p + Len(short_name))

\* Literals of the source.  The two non-ASCII characters of the source, the
\* pilcrow and the en dash, are the one-character strings "PILCROW" and "EMDASH".
UnknownClass == <<"U", "n", "k", "n", "o", "w", "n", "C", "l", "a", "s", "s">>
SourceMarker == <<"PILCROW", "[", "s", "o", "u", "r", "c", "e", "]">>
ParametersLabel == <<"P", "a", "r", "a", "m", "e", "t", "e", "r", "s">>
EmDash == <<"EMDASH">>
AnyType == <<"A", "n", "y">>

----------------------------------------------------------------------------
(* Document trees (docutils nodes).                                        *)

Node(type) ==
    [type |-> type, depth |-> 0, size |-> 1, text |-> <<>>, objtype |-> "", ids |-> <<>>]

TextNode(s) == << [Node("Text") EXCEPT !.text = s] >>

Indent(t) == [k \in 1..Len(t) |-> [t[k] EXCEPT !.depth = @ + 1]]

\* the concatenation of the sequences ts[lo], ..., ts[hi] (halving keeps the
\* evaluation shallow)
RECURSIVE FlattenRange(_, _, _)
FlattenRange(ts, lo, hi) ==
    IF lo > hi THEN <<>>
    ELSE IF lo = hi THEN ts[lo]
    ELSE LET mid == (lo + hi) \div 2
         IN  FlattenRange(ts, lo, mid) \o FlattenRange(ts, mid + 1, hi)

Flatten(ts) == FlattenRange(ts, 1, Len(ts))

\* an element with the given sequence of child subtrees
Elem(node, kids) ==
    LET below == Indent(Flatten(kids))
    IN  <<[node EXCEPT !.size = 1 + Len(below)]>> \o below

\* index of the last node of the subtree rooted at i
SubtreeEnd(t, i) == i + t[i].size - 1

\* node j and all its ancestors are still attached (none was removed from its parent)
Attached(t, removed, j) ==
    \A r \in removed : ~(r <= j /\ j <= SubtreeEnd(t, r))

\* the indices lo..hi as a sequence, in increasing order
Range(lo, hi) == IF lo > hi THEN <<>> ELSE [k \in 1..(hi - lo + 1) |-> lo + k - 1]

\* node.traverse(cls): the node itself and its descendants of the class, in
\* document order
Traverse(t, removed, i, type) ==
    LET Hit(j) == t[j].type = type /\ Attached(t, removed, j)
    IN  SelectSeq(Range(i, SubtreeEnd(t, i)), Hit)

\* next(iter(node.traverse(cls)), None), 0 standing for None
First(t, removed, i, type) ==
    LET found == Traverse(t, removed, i, type)
    IN  IF found = <<>> THEN 0 ELSE Head(found)

\* node.children
Children(t, removed, i) ==
    LET Hit(j) == t[j].depth = t[i].depth + 1 /\ Attached(t, removed, j)
    IN  SelectSeq(Range(i + 1, SubtreeEnd(t, i)), Hit)

\* node.astext() of a text element: its text descendants, concatenated
JoinText(t, idx) == Flatten([k \in 1..Len(idx) |-> t[idx[k]].text])

AsText(t, removed, i) == JoinText(t, Traverse(t, removed, i, "Text"))

\* doctree.walkabout(visitor): the visit / depart calls in the order they are made
Departures(t, j) ==
    LET Ends(i) == SubtreeEnd(t, i) = j
        closing == SelectSeq(Range(1, j), Ends)
    IN  [k \in 1..Len(closing) |-> [kind |-> "depart", node |-> closing[Len(closing) + 1 - k]]]

Events(t) ==
    Flatten([j \in 1..Len(t) |-> <<[kind |-> "visit", node |-> j]>> \o Departures(t, j)])

----------------------------------------------------------------------------
(* APIDataVisitor.  A visitor is [data, current_class, removed]:           *)
(* current_class is the index in data of the record it refers to (0 for    *)
(* None), removed the nodes the visitor has detached from the tree.        *)

NewAPIDataVisitor == [data |-> <<>>, current_class |-> 0, removed |-> {}]

Signature(t, removed, sig_node) ==
    Strip(Remove(SourceMarker, CollapseWhitespace(AsText(t, removed, sig_node))))

Description(t, removed, node) ==
    LET content_node == First(t, removed, node, "desc_content")
        para_node == IF content_node = 0 THEN 0
                     ELSE First(t, removed, content_node, "paragraph")
    IN  IF para_node = 0 THEN <<>> ELSE AsText(t, removed, para_node)

visit_desc(v, t, node) ==
    IF t[node].objtype # "class" THEN v
    ELSE LET sig_node == First(t, v.removed, node, "desc_signature")
         IN  IF sig_node = 0 THEN v
             ELSE LET rec == [class_name  |-> IF t[sig_node].ids # <<>>
                                              THEN t[sig_node].ids[1]
                                              ELSE UnknownClass,
                              signature   |-> Signature(t, v.removed, sig_node),
                              description |-> Description(t, v.removed, node),
                              parameters  |-> <<>>,
                              examples    |-> <<>>]
                  IN  [v EXCEPT !.data = Append(@, rec),
                                !.current_class = Len(v.data) + 1]

\* Variant: the context is not closed on departure.
depart_descKeepsContext(v, t, node) == v

depart_desc(v, t, node) ==
    IF t[node].objtype = "class" THEN [v EXCEPT !.current_class = 0] ELSE v

\* one iteration of the loop over the list items of a field body
FieldItem(v, t, list_item) ==
    LET para == First(t, v.removed, list_item, "paragraph")
    IN  IF para = 0 THEN v
        ELSE LET strong_tag   == First(t, v.removed, para, "strong")
                 emphasis_tag == First(t, v.removed, para, "emphasis")
                 name     == IF strong_tag # 0 THEN AsText(t, v.removed, strong_tag) ELSE <<>>
                 type_str == IF emphasis_tag # 0 THEN AsText(t, v.removed, emphasis_tag)
                             ELSE AnyType
                 removed2 == v.removed \cup ({strong_tag, emphasis_tag} \ {0})
                 full_text == AsText(t, removed2, para)
                 desc_start_index == Find(EmDash, full_text)
                 desc == IF desc_start_index # 0
                         THEN Strip(SubSeq(full_text, desc_start_index + 1, Len(full_text)))
                         ELSE <<>>
                 param == [name |-> name, type |-> type_str, description |-> desc]
             IN  [v EXCEPT !.removed = removed2,
                           !.data = IF name # <<>>
                                    THEN [@ EXCEPT ![v.current_class].parameters =
                                                        Append(@, param)]
                                    ELSE @]

RECURSIVE FieldItems(_, _, _)
FieldItems(v, t, items) ==
    IF items = <<>> THEN v
    ELSE FieldItems(FieldItem(v, t, Head(items)), t, Tail(items))

visit_field(v, t, node) ==
    LET children == Children(t, v.removed, node)
    IN  IF v.current_class = 0 \/ Len(children) # 2 THEN v
        ELSE IF ~Contains(ParametersLabel, AsText(t, v.removed, children[1])) THEN v
        ELSE FieldItems(v, t, Traverse(t, v.removed, children[2], "list_item"))

\* NodeVisitor dispatch by node class; unknown_visit / unknown_departure do nothing
APIDispatch(v, t, ev) ==
    IF ~Attached(t, v.removed, ev.node) THEN v
    ELSE IF t[ev.node].type = "desc" /\ ev.kind = "visit" THEN visit_desc(v, t, ev.node)
    ELSE IF t[ev.node].type = "desc" /\ ev.kind = "depart" THEN depart_desc(v, t, ev.node)
    ELSE IF t[ev.node].type = "field" /\ ev.kind = "visit" THEN visit_field(v, t, ev.node)
    ELSE v

\* the visitor after the calls evs[lo], ..., evs[hi], made in that order
RECURSIVE APIWalk(_, _, _, _, _)
APIWalk(v, t, evs, lo, hi) ==
    IF lo > hi THEN v
    ELSE IF lo = hi THEN APIDispatch(v, t, evs[lo])
    ELSE LET mid == (lo + hi) \div 2
             w == APIWalk(v, t, evs, lo, mid)
         IN  IF w.current_class >= 0 THEN APIWalk(w, t, evs, mid + 1, hi) ELSE w

\* doctree.walkabout(APIDataVisitor(doctree))
APIWalkabout(t) == APIWalk(NewAPIDataVisitor, t, Events(t), 1, Len(Events(t)))

----------------------------------------------------------------------------
(* CodeBlockVisitor                                                        *)

visit_literal_block(code_blocks, t, removed, node) ==
    Append(code_blocks, AsText(t, removed, node))

CodeDispatch(code_blocks, t, removed, ev) ==
    IF Attached(t, removed, ev.node) /\ t[ev.node].type = "literal_block" /\ ev.kind = "visit"
    THEN visit_literal_block(code_blocks, t, removed, ev.node)
    ELSE code_blocks

RECURSIVE CodeWalk(_, _, _, _, _, _)
CodeWalk(code_blocks, t, removed, evs, lo, hi) ==
    IF lo > hi THEN code_blocks
    ELSE IF lo = hi THEN CodeDispatch(code_blocks, t, removed, evs[lo])
    ELSE LET mid == (lo + hi) \div 2
             w == CodeWalk(code_blocks, t, removed, evs, lo, mid)
         IN  IF Len(w) >= 0 THEN CodeWalk(w, t, removed, evs, mid + 1, hi) ELSE w

\* doctree.walkabout(CodeBlockVisitor(doctree)) on a tree from which the nodes
\* in removed were detached
CodeWalkabout(t, removed) == CodeWalk(<<>>, t, removed, Events(t), 1, Len(Events(t)))

----------------------------------------------------------------------------
(* The documents the host hands to the builder.                            *)

MaxCodeLen == 3
MaxBlocks == 1
MaxClasses == 1

SeqsUpTo(S, n) == UNION {[1..k -> S] : k \in 0..n}

\* the text of code examples: every string of at most MaxCodeLen characters
CodeAlphabet == {"A", " "}
CodeTexts == SeqsUpTo(CodeAlphabet, MaxCodeLen)

\* ids of the documented classes: p.A and q.A share the short name A, and A is
\* a proper part of the identifier AA
ClassNames == {<<"p", ".", "A">>, <<"q", ".", "A">>, <<"p", ".", "A", "A">>}

Paragraph(kids) == Elem(Node("paragraph"), kids)
Strong(s) == Elem(Node("strong"), <<TextNode(s)>>)
Emphasis(s) == Elem(Node("emphasis"), <<TextNode(s)>>)
LiteralBlock(s) == Elem(Node("literal_block"), <<TextNode(s)>>)
DescSignature(ids, s) == Elem([Node("desc_signature") EXCEPT !.ids = ids], <<TextNode(s)>>)
Desc(objtype, kids) == Elem([Node("desc") EXCEPT !.objtype = objtype], kids)
Document(kids) == Elem(Node("document"), kids)

\* "name (type) - description", as the Python domain renders a parameter
TypedItem(name, type, desc) ==
    Elem(Node("list_item"),
         <<Paragraph(<<Strong(name), TextNode(<<" ", "(">>), Emphasis(type),
                       TextNode(<<")", " ", "EMDASH", " ">> \o desc)>>)>>)

ParametersField(items) ==
    Elem(Node("field"),
         <<Elem(Node("field_name"), <<TextNode(ParametersLabel)>>),
           Elem(Node("field_body"), <<Elem(Node("bullet_list"), items)>>)>>)

\* a documented class: signature, first paragraph and one typed parameter
ClassDesc(name) ==
    Desc("class",
         <<DescSignature(<<name>>,
                         <<"c", " ", " ">> \o name \o <<"(", "x", ")">> \o SourceMarker),
           Elem(Node("desc_content"),
                <<Paragraph(<<TextNode(<<"d", "o", "c">>)>>),
                  Elem(Node("field_list"),
                       <<ParametersField(<<TypedItem(<<"x">>, <<"i", "n", "t">>, <<"s">>)>>)>>)>>)>>)

ClassDescs == {ClassDesc(name) : name \in ClassNames}

\* a document with two classes of the same short name
ClassPairs == {<<ClassDesc(<<"p", ".", "A">>), ClassDesc(<<"q", ".", "A">>)>>}
LiteralBlocks == {LiteralBlock(code) : code \in CodeTexts}

\* the trees of a build: some documented classes followed by some code examples
DocTrees ==
    {Document(cs \o bs) : cs \in SeqsUpTo(ClassDescs, MaxClasses) \cup ClassPairs,
                          bs \in SeqsUpTo(LiteralBlocks, MaxBlocks)}

----------------------------------------------------------------------------
(* Trees for the walk of one reference document.                           *)

MaxItems == 2
MaxNesting == 3

ReturnsLabel == <<"R", "e", "t", "u", "r", "n", "s">>
OtherParametersLabel == <<"O", "t", "h", "e", "r", " ">> \o ParametersLabel

ListItem(kids) == Elem(Node("list_item"), kids)
BulletList(items) == Elem(Node("bullet_list"), items)

\* the shapes of a list item of a field body
ItemShapes ==
    { \* name, type and description
      TypedItem(<<"x">>, <<"i", "n", "t">>, <<"s">>),
      \* a name only
      ListItem(<<Paragraph(<<Strong(<<"y">>), TextNode(<<" ", "d">>)>>)>>),
      \* a type marker but no name marker
      ListItem(<<Paragraph(<<Emphasis(<<"i", "n", "t">>),
                             TextNode(<<" ", "EMDASH", " ", "s">>)>>)>>),
      \* no paragraph
      ListItem(<<>>),
      \* a parameter whose description holds a list with a marked item
      ListItem(<<Paragraph(<<Strong(<<"x">>), TextNode(<<" ", "EMDASH", " ", "s">>)>>),
                 BulletList(<<ListItem(<<Paragraph(<<Strong(<<"y">>),
                                                     TextNode(<<" ", "d">>)>>)>>)>>)>>),
      \* an item that begins with a nested list ("- - x (int) - s")
      ListItem(<<BulletList(<<TypedItem(<<"x">>, <<"i", "n", "t">>, <<"s">>)>>)>>),
      \* the same, the nested paragraph holding a second strong node
      ListItem(<<BulletList(<<ListItem(<<Paragraph(<<Strong(<<"x">>),
                                                      TextNode(<<" ", "EMDASH", " ">>),
                                                      Strong(<<"y">>)>>)>>)>>)>>) }

\* a field with the given label: label and body, or also a third child
Field(label, items, extra) ==
    Elem(Node("field"),
         <<Elem(Node("field_name"), <<TextNode(label)>>),
           Elem(Node("field_body"), <<BulletList(items)>>)>>
         \o (IF extra THEN <<Paragraph(<<TextNode(<<"d">>)>>)>> ELSE <<>>))

FieldShapes ==
    { [label |-> ParametersLabel, extra |-> FALSE],
      [label |-> OtherParametersLabel, extra |-> FALSE],
      [label |-> ReturnsLabel, extra |-> FALSE],
      [label |-> ParametersLabel, extra |-> TRUE] }

\* one documented class with one field
ParamTrees ==
    {Document(<<Desc("class",
                     <<DescSignature(<<<<"p", ".", "A">>>>, <<"c", " ", "p", ".", "A">>),
                       Elem(Node("desc_content"),
                            <<Paragraph(<<TextNode(<<"d", "o", "c">>)>>),
                              Elem(Node("field_list"),
                                   <<Field(f.label, items, f.extra)>>)>>)>>)>>) :
        f \in FieldShapes, items \in SeqsUpTo(ItemShapes, MaxItems)}

\* nested and sibling containers: classes with and without a signature,
\* methods, and Parameters fields, at most n of them in all
RECURSIVE Forests(_)
Forests(n) ==
    IF n = 0 THEN {<<>>}
    ELSE {<<>>}
         \cup {<<ParametersField(<<TypedItem(<<"x">>, <<"i", "n", "t">>, <<"s">>)>>)>> \o rest :
                    rest \in Forests(n - 1)}
         \cup UNION {
                {<<Desc("class", <<DescSignature(<<<<"p", ".", "A">>>>, <<"A">>)>> \o inner)>>
                    \o rest : inner \in Forests(a), rest \in Forests(n - 1 - a)}
                \cup {<<Desc("class", <<DescSignature(<<>>, <<"B">>)>> \o inner)>>
                    \o rest : inner \in Forests(a), rest \in Forests(n - 1 - a)}
                \cup {<<Desc("class", inner)>> \o rest :
                        inner \in Forests(a), rest \in Forests(n - 1 - a)}
                \cup {<<Desc("method", <<DescSignature(<<<<"p", ".", "m">>>>, <<"m">>)>>
                                        \o inner)>> \o rest :
                        inner \in Forests(a), rest \in Forests(n - 1 - a)}
                : a \in 0..(n - 1)}

NestTrees == {Document(f) : f \in Forests(MaxNesting)}

WalkTrees == ParamTrees \cup NestTrees

ReferencePython ==
    <<"r", "e", "f", "e", "r", "e", "n", "c", "e", "/", "p", "y", "t", "h", "o", "n">>

\* the documents of the project: docname and the suffix of env.doc2path(docname)
Docs ==
    { [docname |-> ReferencePython \o <<"/", "a">>, suffix |-> ".rst"],
      [docname |-> ReferencePython \o <<"/", "b">>, suffix |-> ".md"],
      [docname |-> <<"g", "u", "i", "d", "e", "/", "c">>, suffix |-> ".ipynb"],
      [docname |-> <<"i", "n", "d", "e", "x">>, suffix |-> ".rst"] }

----------------------------------------------------------------------------
(* JSONDataBuilder                                                         *)

VARIABLES
    all_api_classes,   \* self.all_api_classes: the records, in collection order
    all_code_blocks,   \* self.all_code_blocks: [key, value] entries in insertion
                       \* order (a dict from docname to code blocks)
    phase,             \* "collect" until finish() has run, then "finished"
    dumped,            \* the object finish() hands to json.dump (<<>> before)
    written,           \* the docnames write_doc was called for
    entered,           \* history: ids of the class-definition nodes of the reference
                       \* documents, in call order and, within a tree, document order
    literals,          \* history: the literal blocks of the example-bearing
                       \* documents, per docname
    workers,           \* the host's write processes: for each, its status ("idle",
                       \* "running", "exited") and its own builder attributes
    doctree,           \* the tree an APIDataVisitor is walking (<<>>: no walk)
    todo,              \* the visit / depart calls that walk has still to make
    visitor,           \* that APIDataVisitor
    made_at            \* history: for each record of visitor.data, the node whose
                       \* visit made it

builder_vars ==
    <<all_api_classes, all_code_blocks, phase, dumped, written, entered, literals, workers>>
walk_vars == <<doctree, todo, visitor, made_at>>
vars == <<builder_vars, walk_vars>>

\* d[key] = value on a dict held as a sequence of entries in insertion order
DictSet(d, key, value) ==
    IF \E k \in 1..Len(d) : d[k].key = key
    THEN [k \in 1..Len(d) |-> IF d[k].key = key THEN [key |-> key, value |-> value] ELSE d[k]]
    ELSE Append(d, [key |-> key, value |-> value])

IsReference(docname) == Contains(ReferencePython, docname)
HasExamples(suffix) == suffix \in {".ipynb", ".md"}

\* each tree with what the two visitors make of it.  The second visitor walks
\* the tree the first one left, so its result is kept for both cases.
Walkabouts ==
    {[doctree     |-> t,
      api_visitor |-> APIWalkabout(t),
      code_blocks |-> CodeWalkabout(t, {}),
      code_blocks_after_api |-> CodeWalkabout(t, APIWalkabout(t).removed)] : t \in DocTrees}

\* Variant: the records of a document are put before the ones collected so far.
CollectedRecordsPrepended(api, docname, w) ==
    IF IsReference(docname) /\ w.api_visitor.data # <<>>
    THEN w.api_visitor.data \o api
    ELSE api

\* lines 45-50: what write_doc leaves in all_api_classes
CollectedRecords(api, docname, w) ==
    IF IsReference(docname) /\ w.api_visitor.data # <<>>
    THEN api \o w.api_visitor.data
    ELSE api

\* lines 53-58: what write_doc leaves in all_code_blocks
CollectedBlocks(blocks, docname, suffix, w) ==
    LET code_blocks == IF IsReference(docname) THEN w.code_blocks_after_api
                       ELSE w.code_blocks
    IN  IF HasExamples(suffix) /\ code_blocks # <<>>
        THEN DictSet(blocks, docname, code_blocks)
        ELSE blocks

\* history: the ids of the class-definition nodes of a tree, in document order
ClassNodeIds(t) ==
    LET IsClass(j) == /\ t[j].type = "desc" /\ t[j].objtype = "class"
                      /\ j < Len(t) /\ t[j + 1].type = "desc_signature"
                      /\ t[j + 1].ids # <<>>
        classes == SelectSeq(Range(1, Len(t)), IsClass)
    IN  [k \in 1..Len(classes) |-> t[classes[k] + 1].ids[1]]

NumWorkers == 2
Workers == 1..NumWorkers

\* history: the text of the literal blocks of a tree, in document order
LiteralTexts(t) ==
    LET IsText(j) == t[j].type = "Text" /\ j > 1 /\ t[j - 1].type = "literal_block"
        texts == SelectSeq(Range(1, Len(t)), IsText)
    IN  [k \in 1..Len(texts) |-> t[texts[k]].text]

init ==
    /\ all_api_classes = <<>>
    /\ all_code_blocks = <<>>
    /\ phase = "collect"
    /\ dumped = <<>>
    /\ written = {}
    /\ entered = <<>>
    /\ literals = <<>>
    /\ workers = [p \in Workers |->
                    [status |-> "idle", all_api_classes |-> <<>>, all_code_blocks |-> <<>>]]

NoWalk ==
    /\ doctree = <<>>
    /\ todo = <<>>
    /\ visitor = NewAPIDataVisitor
    /\ made_at = <<>>

\* history of a write_doc call, in whichever process it runs
Recorded(doc, w) ==
    /\ written' = written \cup {doc.docname}
    /\ entered' = IF IsReference(doc.docname)
                  THEN entered \o ClassNodeIds(w.doctree) ELSE entered
    /\ literals' = IF HasExamples(doc.suffix) /\ LiteralTexts(w.doctree) # <<>>
                   THEN Append(literals, [key |-> doc.docname,
                                          value |-> LiteralTexts(w.doctree)])
                   ELSE literals

\* write_doc in the process that will run finish(); the host writes there
\* until it starts its write processes
write_doc(doc, w) ==
    /\ phase = "collect"
    /\ doc.docname \notin written
    /\ \A p \in Workers : workers[p].status = "idle"
    /\ all_api_classes' = CollectedRecords(all_api_classes, doc.docname, w)
    /\ all_code_blocks' = CollectedBlocks(all_code_blocks, doc.docname, doc.suffix, w)
    /\ Recorded(doc, w)
    /\ UNCHANGED <<phase, dumped, workers, walk_vars>>

\* x in s
InSeq(x, s) == \E k \in 1..Len(s) : s[k] = x

\* {info["class_name"].split(".")[-1]: info for info in self.all_api_classes}:
\* entries in first-insertion order, each holding the index of the last record
\* with that short name
RECURSIVE ClassMapFrom(_, _, _)
ClassMapFrom(class_map, api, k) ==
    IF k > Len(api) THEN class_map
    ELSE ClassMapFrom(DictSet(class_map, LastSegment(api[k].class_name), k), api, k + 1)

\* Variant: the first record with a short name keeps it.
ClassMapFirstWins(api) ==
    LET class_map == ClassMapFrom(<<>>, api, 1)
        FirstWith(key) == CHOOSE i \in 1..Len(api) :
                              /\ LastSegment(api[i].class_name) = key
                              /\ \A j \in 1..(i - 1) : LastSegment(api[j].class_name) # key
    IN  [k \in 1..Len(class_map) |->
            [key |-> class_map[k].key, value |-> FirstWith(class_map[k].key)]]

ClassMap(api) == ClassMapFrom(<<>>, api, 1)

\* the iterations of the three nested loops of finish(), in execution order
BlockIterations(class_map, code) ==
    [k \in 1..Len(class_map) |->
        [code |-> code, short_name |-> class_map[k].key, class_info |-> class_map[k].value]]

DocIterations(class_map, code_blocks) ==
    Flatten([k \in 1..Len(code_blocks) |-> BlockIterations(class_map, code_blocks[k])])

LinkIterations(class_map, blocks) ==
    Flatten([k \in 1..Len(blocks) |-> DocIterations(class_map, blocks[k].value)])

\* Variants: no test for a duplicate; insertion at the front.
LinkOneNoDedup(api, it) ==
    IF RegexSearch(it.short_name, it.code)
    THEN [api EXCEPT ![it.class_info].examples = Append(@, it.code)]
    ELSE api

LinkOnePrepend(api, it) ==
    IF RegexSearch(it.short_name, it.code) /\ ~InSeq(it.code, api[it.class_info].examples)
    THEN [api EXCEPT ![it.class_info].examples = <<it.code>> \o @]
    ELSE api

\* the body of the innermost loop
LinkOne(api, it) ==
    IF RegexSearch(it.short_name, it.code) /\ ~InSeq(it.code, api[it.class_info].examples)
    THEN [api EXCEPT ![it.class_info].examples = Append(@, it.code)]
    ELSE api

\* the records after the iterations lo..hi, run in that order
RECURSIVE LinkFold(_, _, _, _)
LinkFold(api, iterations, lo, hi) ==
    IF lo > hi THEN api
    ELSE IF lo = hi THEN LinkOne(api, iterations[lo])
    ELSE LET mid == (lo + hi) \div 2
             w == LinkFold(api, iterations, lo, mid)
         IN  IF Len(w) >= 0 THEN LinkFold(w, iterations, mid + 1, hi) ELSE w

\* lines 67-79 of finish(): the linking phase
Link(api, blocks) ==
    LET iterations == LinkIterations(ClassMap(api), blocks)
    IN  LinkFold(api, iterations, 1, Len(iterations))

finish ==
    /\ phase = "collect"
    /\ \A p \in Workers : workers[p].status \in {"idle", "exited"}
    /\ all_api_classes' = Link(all_api_classes, all_code_blocks)
    /\ dumped' = all_api_classes'
    /\ phase' = "finished"
    /\ UNCHANGED <<all_code_blocks, written, entered, literals, workers, walk_vars>>

Init == init /\ NoWalk

Next ==
    \/ \E doc \in Docs, w \in Walkabouts : write_doc(doc, w)
    \/ finish

Spec == Init /\ [][Next]_vars

\* the linking phase of finish() (lines 67-79), run once more on what it left
link_again ==
    /\ phase = "finished"
    /\ all_api_classes' = Link(all_api_classes, all_code_blocks)
    /\ phase' = "relinked"
    /\ UNCHANGED <<all_code_blocks, dumped, written, entered, literals, workers, walk_vars>>

NextRelink ==
    \/ \E doc \in Docs, w \in Walkabouts : write_doc(doc, w)
    \/ finish
    \/ link_again

SpecRelink == Init /\ [][NextRelink]_vars

----------------------------------------------------------------------------
(* A parallel build.  allow_parallel and parallel_write_safe let the host  *)
(* run write_doc in write processes: the first document is written in the  *)
(* main process, the others in forked processes, each working on its own   *)
(* copy of the builder; finish() runs in the main process after the join.  *)

MaxParallelCodeLen == 1

ParallelWalkabouts ==
    {w \in Walkabouts : \A k \in 1..Len(w.code_blocks) : Len(w.code_blocks[k]) <= MaxParallelCodeLen}

\* the host forks write process p: it inherits the builder as it is now
fork(p) ==
    /\ phase = "collect"
    /\ written # {}
    /\ workers[p].status = "idle"
    /\ workers' = [workers EXCEPT ![p] = [status |-> "running",
                                          all_api_classes |-> all_api_classes,
                                          all_code_blocks |-> all_code_blocks]]
    /\ UNCHANGED <<all_api_classes, all_code_blocks, phase, dumped, written, entered,
                   literals, walk_vars>>

\* write_doc in write process p: self is the copy of the builder
worker_write_doc(p, doc, w) ==
    /\ workers[p].status = "running"
    /\ doc.docname \notin written
    /\ workers' = [workers EXCEPT ![p] =
            [status |-> "running",
             all_api_classes |-> CollectedRecords(workers[p].all_api_classes, doc.docname, w),
             all_code_blocks |-> CollectedBlocks(workers[p].all_code_blocks, doc.docname,
                                                 doc.suffix, w)]]
    /\ Recorded(doc, w)
    /\ UNCHANGED <<all_api_classes, all_code_blocks, phase, dumped, walk_vars>>

\* write process p returns (write_doc returns nothing) and is joined
join(p) ==
    /\ workers[p].status = "running"
    /\ workers' = [workers EXCEPT ![p] = [status |-> "exited", all_api_classes |-> <<>>,
                                          all_code_blocks |-> <<>>]]
    /\ UNCHANGED <<all_api_classes, all_code_blocks, phase, dumped, written, entered,
                   literals, walk_vars>>

NextParallel ==
    \/ \E doc \in Docs, w \in ParallelWalkabouts : write_doc(doc, w)
    \/ \E p \in Workers : fork(p)
    \/ \E p \in Workers, doc \in Docs, w \in ParallelWalkabouts : worker_write_doc(p, doc, w)
    \/ \E p \in Workers : join(p)
    \/ finish

SpecParallel == Init /\ [][NextParallel]_vars

----------------------------------------------------------------------------
(* One walk of an APIDataVisitor over a tree, call by call.                *)

\* the calls left to make: walkabout does not descend into detached nodes
Left ==
    LET Reached(ev) == Attached(doctree, visitor.removed, ev.node)
    IN  SelectSeq(todo, Reached)

\* the next call is of the given kind on a node of one of the given types
Calls(kind, types) ==
    /\ Left # <<>>
    /\ Head(Left).kind = kind
    /\ doctree[Head(Left).node].type \in types

\* the call leaves the visitor as v
Called(v) ==
    /\ visitor' = v
    /\ todo' = Tail(Left)
    /\ made_at' = IF Len(v.data) > Len(visitor.data)
                  THEN Append(made_at, Head(Left).node)
                  ELSE made_at
    /\ UNCHANGED <<doctree, builder_vars>>

NodeTypes ==
    {"document", "desc", "desc_signature", "desc_content", "paragraph", "field_list",
     "field", "field_name", "field_body", "bullet_list", "list_item", "strong",
     "emphasis", "literal_block", "Text"}

VisitDesc ==
    /\ Calls("visit", {"desc"})
    /\ Called(visit_desc(visitor, doctree, Head(Left).node))

DepartDesc ==
    /\ Calls("depart", {"desc"})
    /\ Called(depart_desc(visitor, doctree, Head(Left).node))

VisitField ==
    /\ Calls("visit", {"field"})
    /\ Called(visit_field(visitor, doctree, Head(Left).node))

UnknownVisit ==
    /\ Calls("visit", NodeTypes \ {"desc", "field"})
    /\ Called(visitor)

UnknownDeparture ==
    /\ Calls("depart", NodeTypes \ {"desc"})
    /\ Called(visitor)

InitWalk ==
    /\ init
    /\ doctree \in WalkTrees
    /\ todo = Events(doctree)
    /\ visitor = NewAPIDataVisitor
    /\ made_at = <<>>

NextWalk == VisitDesc \/ DepartDesc \/ VisitField \/ UnknownVisit \/ UnknownDeparture

SpecWalk == InitWalk /\ [][NextWalk]_vars

----------------------------------------------------------------------------
(* Properties of the build: collection by write_doc, linking by finish().  *)

\* the part of a dotted name after its last dot
ShortNameOf(class_name) ==
    CHOOSE s \in {SubSeq(class_name, i, Len(class_name)) : i \in 1..(Len(class_name) + 1)} :
        /\ \A k \in 1..Len(s) : s[k] # "."
        /\ Len(s) < Len(class_name) => class_name[Len(class_name) - Len(s)] = "."

\* S stands in B as a word of its own: neither preceded nor followed by a
\* character of an identifier
OccursAsWholeWord(S, B) ==
    \E i \in 1..Len(B) :
        /\ OccursAt(S, B, i)
        /\ i > 1 => ~IsWord(B[i - 1])
        /\ i + Len(S) <= Len(B) => ~IsWord(B[i + Len(S)])

\* the number of standings of S in B as a word of its own
WholeWordCount(S, B) ==
    Cardinality({i \in 1..Len(B) :
                    /\ OccursAt(S, B, i)
                    /\ i > 1 => ~IsWord(B[i - 1])
                    /\ i + Len(S) <= Len(B) => ~IsWord(B[i + Len(S)])})

Count(x, s) == Cardinality({k \in 1..Len(s) : s[k] = x})
NoDuplicates(s) == \A i, j \in 1..Len(s) : s[i] = s[j] => i = j
IsPrefix(s, t) == Len(s) <= Len(t) /\ SubSeq(t, 1, Len(s)) = s
Names(api) == [k \in 1..Len(api) |-> api[k].class_name]

\* the collected code blocks, of all documents
CollectedCode ==
    UNION {{all_code_blocks[d].value[k] : k \in 1..Len(all_code_blocks[d].value)} :
              d \in 1..Len(all_code_blocks)}

\* the documents holding a block with the given text
DocsWith(B) ==
    {d \in 1..Len(all_code_blocks) : InSeq(B, all_code_blocks[d].value)}

\* record k is the one registered under its short name: no later record has it
Registered(api, k) ==
    \A j \in (k + 1)..Len(api) :
        ShortNameOf(api[j].class_name) # ShortNameOf(api[k].class_name)

\* the records after the first n iterations of the loops of finish()
Linked(n) ==
    LinkFold(all_api_classes,
             LinkIterations(ClassMap(all_api_classes), all_code_blocks), 1, n)
NumIterations == Len(LinkIterations(ClassMap(all_api_classes), all_code_blocks))

\* C1: after finish(), for every registered short name S and every collected
\* code block B in which S stands as a whole word, B is in the examples of the
\* record registered under S exactly once, however often S stands in B and
\* however many documents hold a block with the text of B.
C1_LinkedExactlyOnce ==
    phase = "finished" =>
        \A k \in 1..Len(dumped) : Registered(dumped, k) =>
            \A B \in CollectedCode :
                OccursAsWholeWord(ShortNameOf(dumped[k].class_name), B)
                    => Count(B, dumped[k].examples) = 1

\* C1 met: a block in which the short name stands twice, held by two
\* documents, linked once
C1_Witness ==
    /\ phase = "finished"
    /\ \E k \in 1..Len(dumped), B \in CollectedCode :
          /\ Registered(dumped, k)
          /\ WholeWordCount(ShortNameOf(dumped[k].class_name), B) >= 2
          /\ Cardinality(DocsWith(B)) >= 2
          /\ Count(B, dumped[k].examples) = 1

\* C2: after finish(), a code block is in the examples of a record only if it
\* was collected and the record's short name stands in it as a whole word; a
\* short name that is only part of a longer identifier links nothing, and when
\* no collected block holds any short name every examples list is empty.
C2_OnlyWholeWords ==
    phase = "finished" =>
        /\ \A k \in 1..Len(dumped) : \A e \in 1..Len(dumped[k].examples) :
              /\ dumped[k].examples[e] \in CollectedCode
              /\ OccursAsWholeWord(ShortNameOf(dumped[k].class_name), dumped[k].examples[e])
        /\ (\A k \in 1..Len(dumped), B \in CollectedCode :
                ~Contains(ShortNameOf(dumped[k].class_name), B))
              => \A k \in 1..Len(dumped) : dumped[k].examples = <<>>

\* C2 met: a block holds the short name of a record inside a longer identifier
\* only, and is not among its examples
C2_Witness ==
    /\ phase = "finished"
    /\ \E k \in 1..Len(dumped), B \in CollectedCode :
          /\ Contains(ShortNameOf(dumped[k].class_name), B)
          /\ ~OccursAsWholeWord(ShortNameOf(dumped[k].class_name), B)
          /\ ~InSeq(B, dumped[k].examples)

\* two records, the first collected before the second, with one short name
SameShortName(api, i, j) ==
    /\ i < j
    /\ ShortNameOf(api[i].class_name) = ShortNameOf(api[j].class_name)

\* C3: when two collected records have the same short name, the lookup built
\* by finish() holds that name once and maps it to the latest such record;
\* after finish() the earlier record has no examples, whatever the code blocks,
\* and both records are in the output.
C3_LaterWins ==
    /\ \A i, j \in 1..Len(all_api_classes) : SameShortName(all_api_classes, i, j) =>
          LET class_map == ClassMap(all_api_classes)
              S == ShortNameOf(all_api_classes[i].class_name)
          IN  /\ Cardinality({m \in 1..Len(class_map) : class_map[m].key = S}) = 1
              /\ \A m \in 1..Len(class_map) : class_map[m].key = S =>
                    /\ class_map[m].value >= j
                    /\ ShortNameOf(all_api_classes[class_map[m].value].class_name) = S
    /\ phase = "finished" =>
          /\ Len(dumped) = Len(entered)
          /\ \A i, j \in 1..Len(dumped) : SameShortName(dumped, i, j) =>
                /\ dumped[i].examples = <<>>
                /\ dumped[i].class_name = entered[i]
                /\ dumped[j].class_name = entered[j]

\* C3 met: two records of different classes with one short name, a block that
\* is linked to the later one, and none linked to the earlier one
C3_Witness ==
    /\ phase = "finished"
    /\ \E i, j \in 1..Len(dumped) :
          /\ SameShortName(dumped, i, j)
          /\ dumped[i].class_name # dumped[j].class_name
          /\ dumped[j].examples # <<>>
          /\ dumped[i].examples = <<>>

\* C4: the linker is idempotent: the linking step of finish(), run a second
\* time on the records and code blocks the first run left, leaves the examples
\* of every record as they were after the first run.
C4_Idempotent ==
    phase = "relinked" =>
        /\ Len(all_api_classes) = Len(dumped)
        /\ \A k \in 1..Len(dumped) : all_api_classes[k].examples = dumped[k].examples

\* C4 met: the second run has gone over a record that the first run gave an
\* example
C4_Witness ==
    /\ phase = "relinked"
    /\ \E k \in 1..Len(all_api_classes) : all_api_classes[k].examples # <<>>

\* C5: in every state of a build, those between two iterations of the loops
\* of finish() included, no record holds the same example text twice.
C5_UniqueExamples ==
    /\ \A k \in 1..Len(all_api_classes) : NoDuplicates(all_api_classes[k].examples)
    /\ \A k \in 1..Len(dumped) : NoDuplicates(dumped[k].examples)
    /\ phase = "collect" =>
          \A n \in 0..NumIterations : \A k \in 1..Len(all_api_classes) :
              NoDuplicates(Linked(n)[k].examples)

\* C5 met: two documents hold a block of the same text, and it is an example
\* of a record
C5_Witness ==
    /\ phase = "finished"
    /\ \E k \in 1..Len(all_api_classes), B \in CollectedCode :
          /\ Cardinality(DocsWith(B)) = 2
          /\ InSeq(B, all_api_classes[k].examples)

\* C6: with write_doc called for one document after the other, the records
\* are, before and after finish(), those of the class-definition nodes in call
\* order and, within a document, in the order the walk entered them; what
\* finish() serializes is that sequence.
C6_CollectionOrder ==
    /\ Names(all_api_classes) = entered
    /\ phase # "collect" => Names(dumped) = entered

\* C6 met: a document with one class written before a document with two, the
\* output being in neither alphabetical nor reverse order
C6_Witness ==
    /\ phase = "finished"
    /\ Names(dumped) = << <<"q", ".", "A">>, <<"p", ".", "A">>, <<"q", ".", "A">> >>

\* a record but for its examples
Collected(rec) ==
    [class_name |-> rec.class_name, signature |-> rec.signature,
     description |-> rec.description, parameters |-> rec.parameters]

\* api2 is api1 but for examples appended
OnlyAppended(api1, api2) ==
    /\ Len(api2) = Len(api1)
    /\ \A k \in 1..Len(api1) :
          /\ Collected(api2[k]) = Collected(api1[k])
          /\ IsPrefix(api1[k].examples, api2[k].examples)

\* C9: finish() changes nothing but examples: the other fields of every
\* record, the number and order of the records and the code-block mapping are
\* as before, and each iteration of its loops only appends to examples.
C9_OnlyExamplesGrow ==
    [][(phase = "collect" /\ phase' = "finished") =>
          /\ all_code_blocks' = all_code_blocks
          /\ OnlyAppended(all_api_classes, all_api_classes')
          /\ \A n \in 1..NumIterations : OnlyAppended(Linked(n - 1), Linked(n))
          /\ all_api_classes' = Linked(NumIterations)
          /\ dumped' = all_api_classes']_vars

\* C9 met: finish() has run over a record with a parameter and given it two
\* examples
C9_Witness ==
    /\ phase = "finished"
    /\ \E k \in 1..Len(all_api_classes) :
          /\ all_api_classes[k].parameters # <<>>
          /\ Len(all_api_classes[k].examples) >= 2

----------------------------------------------------------------------------
(* Properties of one walk of an APIDataVisitor.                            *)

\* the walk has entered the node and not left it yet
EnteredNotExited(node) ==
    /\ ~InSeq([kind |-> "visit", node |-> node], todo)
    /\ InSeq([kind |-> "depart", node |-> node], todo)

\* the record context is empty or the record of an open class container
ContextIsOpenClass ==
    \/ visitor.current_class = 0
    \/ /\ visitor.current_class \in 1..Len(visitor.data)
       /\ doctree[made_at[visitor.current_class]].type = "desc"
       /\ doctree[made_at[visitor.current_class]].objtype = "class"
       /\ EnteredNotExited(made_at[visitor.current_class])

\* a call adds parameters only to the record of an open class container, and
\* the visit of a field with no record open adds nothing
AppendsToOpenClass ==
    /\ \A r \in 1..Len(visitor.data) :
          visitor'.data[r].parameters # visitor.data[r].parameters
              => EnteredNotExited(made_at[r])
    /\ (visitor.current_class = 0 /\ Calls("visit", {"field"}))
          => visitor'.data = visitor.data

\* C10: at every point of the walk of a tree, with nested class containers and
\* class containers without a signature, the record context is empty or is the
\* record of a class container entered and not yet exited; no parameter is
\* appended to the record of an exited container, and a field visited with no
\* record open appends nothing.
C10_OpenContext == []ContextIsOpenClass /\ [][AppendsToOpenClass]_vars

\* C10 met: the walk is over, a field came after the container of a record was
\* exited, and the record has no parameter
C10_Witness ==
    /\ doctree # <<>>
    /\ Left = <<>>
    /\ \E r \in 1..Len(visitor.data), f \in 1..Len(doctree) :
          /\ doctree[f].type = "field"
          /\ f > SubtreeEnd(doctree, made_at[r])
          /\ visitor.data[r].parameters = <<>>

\* the nodes of type type of the tree as the host handed it over
NodesOf(t, type) == {j \in 1..Len(t) : t[j].type = type}

\* the tree has one class-definition node, and in it the only field of the
\* tree, which has two children and a label containing Parameters
OneClassWithParametersField(t) ==
    /\ Cardinality({j \in NodesOf(t, "desc") : t[j].objtype = "class"}) = 1
    /\ Cardinality(NodesOf(t, "field")) = 1
    /\ \A c \in NodesOf(t, "desc"), f \in NodesOf(t, "field") :
          /\ c < f /\ f <= SubtreeEnd(t, c)
          /\ Len(Children(t, {}, f)) = 2
          /\ Contains(ParametersLabel, AsText(t, {}, Children(t, {}, f)[1]))

\* the list items of the body of the field of such a tree
BodyItems(t) ==
    LET f == CHOOSE f \in NodesOf(t, "field") : TRUE
        items == Traverse(t, {}, Children(t, {}, f)[2], "list_item")
    IN  {items[k] : k \in 1..Len(items)}

\* the paragraph has a name marker: a strong node with text
HoldsName(t, para) ==
    /\ para # 0
    /\ First(t, {}, para, "strong") # 0
    /\ AsText(t, {}, First(t, {}, para, "strong")) # <<>>

\* a list item has a name marker: in the first paragraph under it, or in the
\* first paragraph among its children
NamedBelow(t, list_item) == HoldsName(t, First(t, {}, list_item, "paragraph"))

NamedWithin(t, list_item) ==
    LET IsParagraph(j) == t[j].type = "paragraph"
        paras == SelectSeq(Children(t, {}, list_item), IsParagraph)
    IN  paras # <<>> /\ HoldsName(t, paras[1])

\* C8: for a reference document with one class-definition node and in it a
\* two-child field whose label contains Parameters, the record has one
\* parameter per list item of the field body that has a name marker, whichever
\* of the two ways of having one is meant; an item without one adds none.
C8_OneEntryPerNamedItem ==
    (/\ doctree # <<>>
     /\ Left = <<>>
     /\ OneClassWithParametersField(doctree)
     /\ Len(visitor.data) = 1)
        => \/ Len(visitor.data[1].parameters)
                = Cardinality({i \in BodyItems(doctree) : NamedBelow(doctree, i)})
           \/ Len(visitor.data[1].parameters)
                = Cardinality({i \in BodyItems(doctree) : NamedWithin(doctree, i)})

----------------------------------------------------------------------------
(* Properties of a parallel build.                                         *)

\* the entries of a dict held as a sequence
Entries(d) == {d[k] : k \in 1..Len(d)}

\* C7: write_doc is safe to run in parallel: under every interleaving, when
\* finish() runs the records are those of every class-definition node of every
\* reference document, each once, and the code-block mapping holds the blocks
\* of every example-bearing document with a block; nothing is lost or doubled.
C7_ParallelSafe ==
    phase = "finished" =>
        /\ Len(dumped) = Len(entered)
        /\ \A k \in 1..Len(entered) :
              Count(entered[k], Names(dumped)) = Count(entered[k], entered)
        /\ Len(all_code_blocks) = Len(literals)
        /\ Entries(all_code_blocks) = Entries(literals)

====
